---------------------------- MODULE Spec2Model ----------------------------
(***************************************************************************)
(* A model of rustdoc-text: the whitespace normalizer clean_markdown       *)
(* (src/lib.rs), the text renderer extract_text_from_node and the line     *)
(* cleanup of html_to_text (src/main.rs), the two process_html_content     *)
(* pipelines, the Config builder and the acquisition functions             *)
(* fetch_online_docs / fetch_local_docs / Config::execute.                 *)
(*                                                                         *)
(* A Rust String is modelled as a sequence of one-character strings.       *)
(***************************************************************************)
EXTENDS Integers, Sequences, FiniteSets, TLC

VARIABLES
    \* clean_markdown applied once and twice to an input string
    nin, nout, nout2, npc,
    \* html_to_text: the parsed tree, the raw text of the walk, the cleaned text
    node, raw, cleaned, rpc,
    \* process_html_content: which file's pipeline, the parsed document,
    \* what htmd's convert answered, the content root taken, the returned Result
    variant, html, converted, rendered_root, result, ppc,
    \* Config builder and acquisition: the Config value, the builder calls made,
    \* the running call, the environment's answers so far, the returned Result
    cfg, calls, call, acq, process_calls, ret, pc

normVars   == <<nin, nout, nout2, npc>>
renderVars == <<node, raw, cleaned, rpc>>
pipeVars   == <<variant, html, converted, rendered_root, result, ppc>>
runVars    == <<cfg, calls, call, acq, process_calls, ret, pc>>
vars       == <<nin, nout, nout2, npc, node, raw, cleaned, rpc,
                variant, html, converted, rendered_root, result, ppc,
                cfg, calls, call, acq, process_calls, ret, pc>>

NL == "\n"
SP == " "
CR == "\r"

Min(a, b) == IF a <= b THEN a ELSE b

\* All sequences over S of length 0..n
SeqsUpTo(S, n) == UNION {[1..k -> S] : k \in 0..n}

(***************************************************************************)
(* clean_markdown (src/lib.rs:223-246)                                     *)
(***************************************************************************)

\* `let mut newline_count = 0` is an i32: `+= 1` wraps at the type's width when
\* overflow checks are off (and panics when they are on), which takes a run of
\* 2^31 newlines
I32Max == 2147483647
WrapI32(n) == IF n > I32Max THEN n - 2 * (I32Max + 1) ELSE n

\* the three locals before the loop
CleanStart == [result |-> <<>>, last_was_newline |-> FALSE, newline_count |-> 0]

\* A slip: the suppressing branch also restarts the count.
CleanStepResetOnDrop(st, c) ==
    IF c = NL
    THEN IF st.newline_count + 1 <= 2
         THEN [result |-> Append(st.result, c), last_was_newline |-> TRUE,
               newline_count |-> st.newline_count + 1]
         ELSE [result |-> st.result, last_was_newline |-> TRUE, newline_count |-> 0]
    ELSE [result |-> Append(st.result, c), last_was_newline |-> FALSE,
          newline_count |-> IF st.last_was_newline THEN 0 ELSE st.newline_count]

\* A slip: the threshold is 3 instead of 2.
CleanStepThreshold3(st, c) ==
    IF c = NL
    THEN [result |-> IF st.newline_count + 1 <= 3 THEN Append(st.result, c) ELSE st.result,
          last_was_newline |-> TRUE, newline_count |-> st.newline_count + 1]
    ELSE [result |-> Append(st.result, c), last_was_newline |-> FALSE,
          newline_count |-> IF st.last_was_newline THEN 0 ELSE st.newline_count]

\* A slip: the character after a newline run is consumed by the reset branch.
CleanStepDropAfterRun(st, c) ==
    IF c = NL
    THEN [result |-> IF st.newline_count + 1 <= 2 THEN Append(st.result, c) ELSE st.result,
          last_was_newline |-> TRUE, newline_count |-> st.newline_count + 1]
    ELSE IF st.last_was_newline
         THEN [result |-> st.result, last_was_newline |-> FALSE, newline_count |-> 0]
         ELSE [result |-> Append(st.result, c), last_was_newline |-> FALSE,
               newline_count |-> st.newline_count]

\* one iteration of `for c in markdown.chars()`
CleanStep(st, c) ==
    IF c = NL
    THEN [result |-> IF WrapI32(st.newline_count + 1) <= 2 THEN Append(st.result, c)
                                                            ELSE st.result,
          last_was_newline |-> TRUE,
          newline_count |-> WrapI32(st.newline_count + 1)]
    ELSE [result |-> Append(st.result, c),
          last_was_newline |-> FALSE,
          newline_count |-> IF st.last_was_newline THEN 0 ELSE st.newline_count]

RECURSIVE CleanLoop(_, _, _)
CleanLoop(st, s, i) ==
    IF i > Len(s) THEN st ELSE CleanLoop(CleanStep(st, s[i]), s, i + 1)

clean_markdown(markdown) == CleanLoop(CleanStart, markdown, 1).result

\* ---- the normalizer applied to bounded inputs ----
MaxLen == 6
NormAlphabet == {NL, "a", "b"}

NormIdle == nin = <<>> /\ nout = <<>> /\ nout2 = <<>> /\ npc = "idle"

NormInit == /\ nin \in SeqsUpTo(NormAlphabet, MaxLen)
            /\ nout = <<>> /\ nout2 = <<>> /\ npc = "start"

Normalize == /\ npc = "start"
             /\ nout' = clean_markdown(nin)
             /\ npc' = "once"
             /\ UNCHANGED <<nin, nout2, renderVars, pipeVars, runVars>>

NormalizeAgain == /\ npc = "once"
                  /\ nout2' = clean_markdown(nout)
                  /\ npc' = "twice"
                  /\ UNCHANGED <<nin, nout, renderVars, pipeVars, runVars>>

(***************************************************************************)
(* The parsed tree (scraper's ego-tree of Node values).  Every node is a   *)
(* record with the same fields; kind is "text", "element" or "comment"     *)
(* (standing for the node kinds the walk's `_ => {}` arm ignores).         *)
(***************************************************************************)
Text(t)            == [kind |-> "text", name |-> "", id |-> "", text |-> t, children |-> <<>>]
Element(n, i, ch)  == [kind |-> "element", name |-> n, id |-> i, text |-> <<>>, children |-> ch]
Comment            == [kind |-> "comment", name |-> "", id |-> "", text |-> <<>>, children |-> <<>>]

\* All trees with exactly n nodes, elements labelled from Labels (records
\* [name, id]) and leaves from Leaves; all forests with n nodes in total.
RECURSIVE TreesOfSize(_, _, _), ForestsOfSize(_, _, _)
TreesOfSize(n, Labels, Leaves) ==
    IF n = 1
    THEN Leaves \cup {Element(l.name, l.id, <<>>) : l \in Labels}
    ELSE LET content == ForestsOfSize(n - 1, Labels, Leaves)
         IN {Element(l.name, l.id, f) : l \in Labels, f \in content}
ForestsOfSize(n, Labels, Leaves) ==
    IF n = 0
    THEN {<<>>}
    ELSE UNION {LET first == TreesOfSize(k, Labels, Leaves)
                    rest == ForestsOfSize(n - k, Labels, Leaves)
                IN {<<t>> \o f : t \in first, f \in rest} : k \in 1..n}

(***************************************************************************)
(* extract_text_from_node (src/main.rs:191-221)                            *)
(***************************************************************************)

\* A slip: only script is skipped.
IsSkippedScriptOnly(name) == name = "script"

\* main.rs:199
IsSkipped(name) == name = "script" \/ name = "style"

\* main.rs:204
block_elements == {"div", "p", "h1", "h2", "h3", "h4", "h5", "h6", "pre", "blockquote", "li"}

\* A slip: the spacing after a block element is forgotten.
CloseElementNoSpacing(name, output) == output

\* main.rs:215-217
CloseElement(name, output) ==
    IF name \in block_elements THEN Append(output, NL) ELSE output

\* main.rs:205-207
OpenElement(name, output) ==
    IF name \in block_elements THEN Append(output, NL) ELSE output

RECURSIVE extract_text_from_node(_, _), ExtractChildren(_, _, _)
extract_text_from_node(n, output) ==
    CASE n.kind = "text"    -> Append(output \o n.text, NL)
      [] n.kind = "element" ->
            IF IsSkipped(n.name)
            THEN output
            ELSE CloseElement(n.name,
                     ExtractChildren(n.children, 1, OpenElement(n.name, output)))
      [] OTHER -> output
\* `for child in node.children()`
ExtractChildren(ch, i, output) ==
    IF i > Len(ch) THEN output
    ELSE ExtractChildren(ch, i + 1, extract_text_from_node(ch[i], output))

(***************************************************************************)
(* html_to_text (src/main.rs:172-188)                                      *)
(***************************************************************************)

\* char::is_whitespace, on the characters the model uses
IsWhitespace(c) == c \in {SP, NL, CR, "\t"}

\* str::trim
RECURSIVE TrimStart(_), TrimEnd(_)
TrimStart(s) == IF s # <<>> /\ IsWhitespace(Head(s)) THEN TrimStart(Tail(s)) ELSE s
TrimEnd(s) == IF s # <<>> /\ IsWhitespace(s[Len(s)]) THEN TrimEnd(SubSeq(s, 1, Len(s) - 1)) ELSE s

Trim(s) == TrimStart(TrimEnd(s))

\* str::split_inclusive('\n'): pieces that end with the newline, but for the last
RECURSIVE SplitInclusive(_, _)
SplitInclusive(s, cur) ==
    IF s = <<>> THEN (IF cur = <<>> THEN <<>> ELSE <<cur>>)
    ELSE IF Head(s) = NL THEN <<Append(cur, NL)>> \o SplitInclusive(Tail(s), <<>>)
    ELSE SplitInclusive(Tail(s), Append(cur, Head(s)))

\* str::lines: a piece loses its "\n", and then a "\r" before it
StripLineEnding(line) ==
    IF line # <<>> /\ line[Len(line)] = NL
    THEN LET l1 == SubSeq(line, 1, Len(line) - 1)
         IN IF l1 # <<>> /\ l1[Len(l1)] = CR THEN SubSeq(l1, 1, Len(l1) - 1) ELSE l1
    ELSE line

Lines(s) == LET pieces == SplitInclusive(s, <<>>)
            IN [k \in 1..Len(pieces) |-> StripLineEnding(pieces[k])]

\* A slip: the empty lines are kept.
KeepLineAlways(line) == TRUE

\* main.rs:183
KeepLine(line) == line # <<>>

\* [..].join("\n")
RECURSIVE Join(_)
Join(ls) == IF ls = <<>> THEN <<>>
            ELSE IF Len(ls) = 1 THEN ls[1]
            ELSE ls[1] \o <<NL>> \o Join(Tail(ls))

\* main.rs:180-185
LineCleanup(plain_text) ==
    LET ls == Lines(plain_text)
        trimmed == [k \in 1..Len(ls) |-> Trim(ls[k])]
    IN Join(SelectSeq(trimmed, KeepLine))

\* Result<String>
Ok(v)  == [kind |-> "Ok", value |-> v, msg |-> ""]
Err(m) == [kind |-> "Err", value |-> <<>>, msg |-> m]
\* no Result yet
Pending == [kind |-> "Pending", value |-> <<>>, msg |-> ""]

\* Html::parse_document of a fragment: the tree builder puts the content under
\* html > body, beside an empty head (main.rs:145, 173)
ParseDocument(content) ==
    Element("html", "", <<Element("head", "", <<>>), Element("body", "", content)>>)

\* main.rs:173-177: plain_text after the walk from document.root_element()
RawText(content) == extract_text_from_node(ParseDocument(content), <<>>)

\* A slip: an empty rendering is reported as an error.
html_to_text_err_on_empty(content) ==
    IF LineCleanup(RawText(content)) = <<>>
    THEN Err("No text content")
    ELSE Ok(LineCleanup(RawText(content)))

\* main.rs:172-188; the argument is the content the markup parses to
html_to_text(content) == Ok(LineCleanup(RawText(content)))

\* ---- the renderer applied to bounded trees ----
MaxNodes == 4
RenderNames == {"div", "span", "script", "style"}
RenderLabels == {[name |-> n, id |-> ""] : n \in RenderNames}
RenderLeaves == {Text(<<"a">>), Text(<<"b">>), Comment}

MaxText == 4
LineAlphabet == {NL, SP, CR, "a", "b"}

RenderIdle == node = Comment /\ raw = <<>> /\ cleaned = <<>> /\ rpc = "idle"

\* every element name the walk tells apart, and some it does not
TagNames == block_elements \cup {"script", "style", "span", "a", "code", "ul", "body"}

\* every tree of at most MaxNodes nodes (an element of k nodes is a label over
\* a first child of j nodes and the k-1-j nodes of its siblings), and every tag
\* name over a text
RenderInit == /\ \/ node \in TreesOfSize(1, RenderLabels, RenderLeaves)
                 \/ \E k \in 2..MaxNodes : \E j \in 1..(k - 1) :
                       LET first == TreesOfSize(j, RenderLabels, RenderLeaves)
                           rest == ForestsOfSize(k - 1 - j, RenderLabels, RenderLeaves)
                       IN \E l \in RenderLabels, t \in first, f \in rest :
                             node = Element(l.name, l.id, <<t>> \o f)
                 \/ node \in {Element(n, "", <<Text(<<"a">>)>>) : n \in TagNames}
              /\ raw = <<>> /\ cleaned = <<>> /\ rpc = "start"

\* trees whose text is arbitrary, in an inline and in a block element
LinesInit == /\ node \in {Element(n, "", <<Text(s)>>) :
                             n \in {"span", "div"}, s \in SeqsUpTo(LineAlphabet, MaxText)}
             /\ raw = <<>> /\ cleaned = <<>> /\ rpc = "start"

\* a call of the helper on a node, with an empty output buffer
ExtractText == /\ rpc = "start"
               /\ raw' = extract_text_from_node(node, <<>>)
               /\ rpc' = "walked"
               /\ UNCHANGED <<node, cleaned, normVars, pipeVars, runVars>>

\* html_to_text on markup whose body content is `node`
HtmlToText == /\ rpc = "start"
              /\ raw' = RawText(<<node>>)
              /\ cleaned' = html_to_text(<<node>>).value
              /\ rpc' = "done"
              /\ UNCHANGED <<node, normVars, pipeVars, runVars>>

(***************************************************************************)
(* process_html_content (src/lib.rs:186-212, src/main.rs:144-169)          *)
(***************************************************************************)
NotFound == "Could not find main content section"
ConversionFailed == "HTML to Markdown conversion failed"
None == [kind |-> "none", name |-> "", id |-> "", text |-> <<>>, children |-> <<>>]

\* the nodes of a tree in the order of tree.root().descendants(): a node, then
\* its children's subtrees from left to right
RECURSIVE Descendants(_), DescendantsOfAll(_, _)
Descendants(n) == <<n>> \o DescendantsOfAll(n.children, 1)
DescendantsOfAll(ch, i) ==
    IF i > Len(ch) THEN <<>> ELSE Descendants(ch[i]) \o DescendantsOfAll(ch, i + 1)

\* Selector::parse("#main-content") and Selector::parse("script")
IsMainContent(n) == n.kind = "element" /\ n.id = "main-content"
IsScript(n) == n.kind = "element" /\ n.name = "script"

\* document.select(&main_content_selector): the matching elements, in document order
Select(document) == SelectSeq(Descendants(document), IsMainContent)

\* A slip: the last match is taken.
SelectLast(matches) == IF matches = <<>> THEN None ELSE matches[Len(matches)]

\* .next() on the select iterator (None when it is empty)
SelectNext(matches) == IF matches = <<>> THEN None ELSE Head(matches)

\* main.rs:158-163: every script element's markup is cut out of the content's
\* markup; on the tree, the script elements of the content go, at any depth
RECURSIVE RemoveScripts(_)
RemoveScripts(content) ==
    IF content = <<>> THEN <<>>
    ELSE LET n == Head(content)
         IN IF IsScript(n) THEN RemoveScripts(Tail(content))
            ELSE <<[n EXCEPT !.children = RemoveScripts(n.children)]>>
                     \o RemoveScripts(Tail(content))

\* main.rs:144-169
process_html_content_main(document) ==
    LET main_content == SelectNext(Select(document))
    IN IF main_content = None
       THEN Err(NotFound)
       ELSE html_to_text(RemoveScripts(main_content.children))

\* lib.rs:204-211: `markdown` is what htmd's convert returned
Cleaned(markdown) ==
    IF markdown.kind = "Err"
    THEN Err(ConversionFailed)
    ELSE Ok(clean_markdown(markdown.value))

\* lib.rs:186-212.  htmd is not part of this repository: what its convert
\* returns for the content (an io::Result<String>) is an input of the model.
process_html_content(document, markdown) ==
    LET main_content == SelectNext(Select(document))
    IN IF main_content = None
       THEN Err(NotFound)
       ELSE Cleaned(markdown)

\* ---- the pipelines applied to bounded documents ----
MaxDocNodes == 4
DocLabels == {[name |-> "div", id |-> ""], [name |-> "div", id |-> "main-content"],
              [name |-> "script", id |-> ""]}
DocLeaves == {Text(<<"a">>), Text(<<SP, "b">>)}
\* what the converter may return
ConvResults == {Err("io error"), Ok(<<>>), Ok(<<"a", NL, NL, NL, "b">>)}

PipeIdle == variant = "none" /\ html = None /\ converted = Pending /\ rendered_root = None
            /\ result = Ok(<<>>) /\ ppc = "idle"

PipeInit == /\ variant \in {"lib", "main"}
            /\ \/ html = ParseDocument(<<>>)
               \/ \E k \in 1..MaxDocNodes : \E j \in 1..k :
                     LET first == TreesOfSize(j, DocLabels, DocLeaves)
                         rest == ForestsOfSize(k - j, DocLabels, DocLeaves)
                     IN \E t \in first, f \in rest : html = ParseDocument(<<t>> \o f)
            /\ converted = Pending
            /\ rendered_root = None
            /\ result = Ok(<<>>)
            /\ ppc = "start"

ProcessHtmlContentLib ==
    /\ ppc = "start" /\ variant = "lib"
    /\ \E markdown \in ConvResults :
          /\ converted' = (IF SelectNext(Select(html)) = None THEN Pending ELSE markdown)
          /\ result' = process_html_content(html, markdown)
    /\ rendered_root' = SelectNext(Select(html))
    /\ ppc' = "done"
    /\ UNCHANGED <<variant, html, normVars, renderVars, runVars>>

ProcessHtmlContentMain ==
    /\ ppc = "start" /\ variant = "main"
    /\ result' = process_html_content_main(html)
    /\ rendered_root' = SelectNext(Select(html))
    /\ ppc' = "done"
    /\ UNCHANGED <<variant, html, converted, normVars, renderVars, runVars>>

(***************************************************************************)
(* Config (src/lib.rs:249-349)                                             *)
(***************************************************************************)
NoPath == "None"

\* lib.rs:276-282
Config_new(crate_name) == [crate_name |-> crate_name, item_path |-> NoPath, online |-> FALSE]

\* lib.rs:298-301
with_item_path(self, item_path) == [self EXCEPT !.item_path = item_path]

\* A slip: the setter rebuilds the value from the crate name.
with_online_rebuilt(self, online) == [Config_new(self.crate_name) EXCEPT !.online = online]

\* lib.rs:317-320
with_online(self, online) == [self EXCEPT !.online = online]

(***************************************************************************)
(* fetch_online_docs (lib.rs:41-74), fetch_local_docs (lib.rs:98-175),     *)
(* Config::execute (lib.rs:342-348).  Each `?` and each early return is a  *)
(* step; what the network, cargo and the file system answer is chosen by   *)
(* the environment and logged in acq.log.                                  *)
(***************************************************************************)
NoCall == [entry |-> "none", mode |-> "none"]
Ev(step, outcome) == [step |-> step, outcome |-> outcome]

\* the next step and the value returned so far
Goto(p) == [pc |-> p, ret |-> Pending]
Return(r) == [pc |-> "done", ret |-> r]

\* `?` on a Result: an Err returns from the function
Try(ok, next, msg) == IF ok THEN Goto(next) ELSE Return(Err(msg))

\* lib.rs:343-347
ExecuteMode(self) == IF self.online THEN "online" ELSE "local"

\* A slip: the status of the response is not looked at.
OnlineStatusIgnored(success) == Goto("online_text")

\* lib.rs:66-71
OnlineStatus(success) ==
    IF ~success THEN Return(Err("Failed to fetch documentation")) ELSE Goto("online_text")

\* lib.rs:111-118, 123-130, 139-149: status()? and then !status.success()
CargoStatus(outcome, next, msg) ==
    IF outcome = "spawn_error" THEN Return(Err("io error"))
    ELSE IF outcome # "exit_success" THEN Return(Err(msg))
    ELSE Goto(next)

\* lib.rs:157-159, 169-171
Exists(exists, next, msg) == IF ~exists THEN Return(Err(msg)) ELSE Goto(next)

CargoOutcomes == {"spawn_error", "exit_failure", "exit_success"}

\* ---- bounded runs ----
MaxCalls == 4
CrateNames == {"serde", "tokio-util"}
ItemPaths == {"Deserializer", "de::Error"}
\* the markup acquisition can deliver: without and with the content root
AcqDocs == {ParseDocument(<<Element("div", "", <<Text(<<"a">>)>>)>>),
            ParseDocument(<<Element("div", "main-content", <<Text(<<"a">>)>>)>>)}

RunIdle == /\ cfg = Config_new("") /\ calls = <<>> /\ call = NoCall
           /\ acq = [log |-> <<>>, html_content |-> None]
           /\ process_calls = 0 /\ ret = Pending /\ pc = "idle"

\* Config::new(name)
RunInit == /\ \E name \in CrateNames :
                /\ cfg = Config_new(name)
                /\ calls = <<[op |-> "new", arg |-> name]>>
           /\ call = NoCall
           /\ acq = [log |-> <<>>, html_content |-> None]
           /\ process_calls = 0 /\ ret = Pending /\ pc = "build"

WithItemPath ==
    /\ pc = "build" /\ Len(calls) < MaxCalls
    /\ \E p \in ItemPaths :
          /\ cfg' = with_item_path(cfg, p)
          /\ calls' = Append(calls, [op |-> "with_item_path", arg |-> p])
    /\ UNCHANGED <<call, acq, process_calls, ret, pc, normVars, renderVars, pipeVars>>

WithOnline ==
    /\ pc = "build" /\ Len(calls) < MaxCalls
    /\ \E b \in BOOLEAN :
          /\ cfg' = with_online(cfg, b)
          /\ calls' = Append(calls, [op |-> "with_online", arg |-> b])
    /\ UNCHANGED <<call, acq, process_calls, ret, pc, normVars, renderVars, pipeVars>>

\* Config::execute
Execute ==
    /\ pc = "build"
    /\ call' = [entry |-> "execute", mode |-> ExecuteMode(cfg)]
    /\ pc' = IF ExecuteMode(cfg) = "online" THEN "online_send" ELSE "local_tempdir"
    /\ UNCHANGED <<cfg, calls, acq, process_calls, ret, normVars, renderVars, pipeVars>>

\* a caller of the public functions, with the Config's fields as arguments
CallFetchOnlineDocs ==
    /\ pc = "build"
    /\ call' = [entry |-> "fetch_online_docs", mode |-> "online"]
    /\ pc' = "online_send"
    /\ UNCHANGED <<cfg, calls, acq, process_calls, ret, normVars, renderVars, pipeVars>>

CallFetchLocalDocs ==
    /\ pc = "build"
    /\ call' = [entry |-> "fetch_local_docs", mode |-> "local"]
    /\ pc' = "local_tempdir"
    /\ UNCHANGED <<cfg, calls, acq, process_calls, ret, normVars, renderVars, pipeVars>>

\* one step of acquisition: the environment's answer is logged, the code moves on
Advance(ev, to) ==
    /\ acq' = [acq EXCEPT !.log = Append(@, ev)]
    /\ pc' = to.pc
    /\ ret' = to.ret
    /\ UNCHANGED <<cfg, calls, call, process_calls, normVars, renderVars, pipeVars>>

\* a step that reads the markup: on success html_content holds it
ReadMarkup(ev, ok, msg) ==
    /\ \E d \in AcqDocs :
          acq' = [log |-> Append(acq.log, ev), html_content |-> IF ok THEN d ELSE None]
    /\ pc' = Try(ok, "process", msg).pc
    /\ ret' = Try(ok, "process", msg).ret
    /\ UNCHANGED <<cfg, calls, call, process_calls, normVars, renderVars, pipeVars>>

Outcome(ok) == IF ok THEN "ok" ELSE "error"

\* lib.rs:65 client.get(&url).send()?
OnlineSend ==
    /\ pc = "online_send"
    /\ \E ok \in BOOLEAN :
        Advance(Ev("send", Outcome(ok)), Try(ok, "online_status", "request failed"))

\* lib.rs:66-71
OnlineCheckStatus ==
    /\ pc = "online_status"
    /\ \E success \in BOOLEAN :
        Advance(Ev("status", IF success THEN "success" ELSE "failure"),
             OnlineStatus(success))

\* lib.rs:72 response.text()?
OnlineReadBody ==
    /\ pc = "online_text"
    /\ \E ok \in BOOLEAN :
        ReadMarkup(Ev("body", Outcome(ok)), ok, "body failed")

\* lib.rs:100 tempdir()?
LocalTempDir ==
    /\ pc = "local_tempdir"
    /\ \E ok \in BOOLEAN :
        Advance(Ev("tempdir", Outcome(ok)), Try(ok, "local_cwd", "io error"))

\* lib.rs:104 current_dir()?
LocalCurrentDir ==
    /\ pc = "local_cwd"
    /\ \E ok \in BOOLEAN :
        Advance(Ev("current_dir", Outcome(ok)), Try(ok, "local_is_project", "io error"))

\* lib.rs:105-109 is_cargo_project
LocalIsCargoProject ==
    /\ pc = "local_is_project"
    /\ \E is_cargo_project \in BOOLEAN :
        Advance(Ev("is_cargo_project", IF is_cargo_project THEN "yes" ELSE "no"),
             Goto(IF is_cargo_project THEN "local_doc_here" ELSE "local_new"))

\* lib.rs:111-120 cargo doc --no-deps in the current project
LocalCargoDocHere ==
    /\ pc = "local_doc_here"
    /\ \E o \in CargoOutcomes :
        Advance(Ev("cargo", o),
             CargoStatus(o, "local_crate_dir", "Failed to build documentation with cargo doc"))

\* lib.rs:123-130 cargo new --bin temp_project
LocalCargoNew ==
    /\ pc = "local_new"
    /\ \E o \in CargoOutcomes :
        Advance(Ev("cargo", o),
             CargoStatus(o, "local_read_toml", "Failed to create temporary cargo project"))

\* lib.rs:134 fs::read_to_string(&temp_cargo_toml)?
LocalReadToml ==
    /\ pc = "local_read_toml"
    /\ \E ok \in BOOLEAN :
        Advance(Ev("read_toml", Outcome(ok)), Try(ok, "local_write_toml", "io error"))

\* lib.rs:136 fs::write(&temp_cargo_toml, ..)?
LocalWriteToml ==
    /\ pc = "local_write_toml"
    /\ \E ok \in BOOLEAN :
        Advance(Ev("write_toml", Outcome(ok)), Try(ok, "local_doc_tmp", "io error"))

\* lib.rs:139-151 cargo doc --no-deps in the temporary project
LocalCargoDocTemp ==
    /\ pc = "local_doc_tmp"
    /\ \E o \in CargoOutcomes :
        Advance(Ev("cargo", o),
             CargoStatus(o, "local_crate_dir", "Failed to build documentation for crate"))

\* lib.rs:155-159 crate_doc_path.exists()
LocalCrateDocPath ==
    /\ pc = "local_crate_dir"
    /\ \E exists \in BOOLEAN :
        Advance(Ev("crate_doc_path", IF exists THEN "exists" ELSE "missing"),
             Exists(exists, "local_index", "Documentation not found for crate"))

\* lib.rs:161-171 index_path.exists()
LocalIndexPath ==
    /\ pc = "local_index"
    /\ \E exists \in BOOLEAN :
        Advance(Ev("index_path", IF exists THEN "exists" ELSE "missing"),
             Exists(exists, "local_read_index", "Documentation not found at path"))

\* lib.rs:173 fs::read_to_string(index_path)?
LocalReadIndex ==
    /\ pc = "local_read_index"
    /\ \E ok \in BOOLEAN :
        ReadMarkup(Ev("read_index", Outcome(ok)), ok, "io error")

\* lib.rs:73, 174 process_html_content(&html_content)
ProcessAcquired ==
    /\ pc = "process"
    /\ process_calls' = process_calls + 1
    /\ \E markdown \in ConvResults :
          ret' = process_html_content(acq.html_content, markdown)
    /\ pc' = "done"
    /\ UNCHANGED <<cfg, calls, call, acq, normVars, renderVars, pipeVars>>

(***************************************************************************)
(* Specifications                                                          *)
(***************************************************************************)
NormNext == Normalize \/ NormalizeAgain
InitNorm == NormInit /\ RenderIdle /\ PipeIdle /\ RunIdle
SpecNorm == InitNorm /\ [][NormNext]_vars

RenderNext == ExtractText \/ HtmlToText
InitRender == RenderInit /\ NormIdle /\ PipeIdle /\ RunIdle
SpecRender == InitRender /\ [][RenderNext]_vars
InitLines == LinesInit /\ NormIdle /\ PipeIdle /\ RunIdle
SpecLines == InitLines /\ [][RenderNext]_vars

PipeNext == ProcessHtmlContentLib \/ ProcessHtmlContentMain
InitPipe == PipeInit /\ NormIdle /\ RenderIdle /\ RunIdle
SpecPipe == InitPipe /\ [][PipeNext]_vars

RunNext == \/ WithItemPath \/ WithOnline
           \/ Execute \/ CallFetchOnlineDocs \/ CallFetchLocalDocs
           \/ OnlineSend \/ OnlineCheckStatus \/ OnlineReadBody
           \/ LocalTempDir \/ LocalCurrentDir \/ LocalIsCargoProject
           \/ LocalCargoDocHere \/ LocalCargoNew \/ LocalReadToml \/ LocalWriteToml
           \/ LocalCargoDocTemp \/ LocalCrateDocPath \/ LocalIndexPath \/ LocalReadIndex
           \/ ProcessAcquired
InitRun == RunInit /\ NormIdle /\ RenderIdle /\ PipeIdle
SpecRun == InitRun /\ [][RunNext]_vars

Init == InitRun
Next == RunNext
Spec == Init /\ [][Next]_vars

(***************************************************************************)
(* Properties of clean_markdown, under SpecNorm                            *)
(***************************************************************************)

\* the maximal runs of a string: newline runs and runs of other characters
RECURSIVE RunsOf(_)
RunsOf(s) ==
    IF s = <<>> THEN <<>>
    ELSE LET nl == (Head(s) = NL)
             rest == RunsOf(Tail(s))
         IN IF rest # <<>> /\ rest[1].nl = nl
            THEN <<[nl |-> nl, len |-> rest[1].len + 1]>> \o Tail(rest)
            ELSE <<[nl |-> nl, len |-> 1]>> \o rest

CollapsedRuns(s) ==
    LET rs == RunsOf(s)
    IN [k \in 1..Len(rs) |-> IF rs[k].nl THEN [nl |-> TRUE, len |-> Min(rs[k].len, 2)]
                                         ELSE rs[k]]

IsNotNewline(c) == c # NL

\* C1: the k-th maximal run of n newlines of the input is the k-th run of the
\* output, with min(n, 2) newlines; the runs of other characters keep their
\* place and length; the output has no run of more than 2 newlines.
C1_RunsCollapsedToTwo ==
    npc \in {"once", "twice"} =>
        /\ RunsOf(nout) = CollapsedRuns(nin)
        /\ \A k \in 1..Len(RunsOf(nout)) : RunsOf(nout)[k].nl => RunsOf(nout)[k].len <= 2

C1_Witness ==
    /\ npc = "once"
    /\ nin = <<"a", NL, NL, NL, "b", NL>>
    /\ nout = <<"a", NL, NL, "b", NL>>

\* C2: the non-newline characters of the output are those of the input, in
\* order, and the output is not longer than the input.
C2_ContentPreserved ==
    npc \in {"once", "twice"} =>
        /\ SelectSeq(nout, IsNotNewline) = SelectSeq(nin, IsNotNewline)
        /\ Len(nout) <= Len(nin)

C2_Witness ==
    /\ npc = "once"
    /\ nin = <<NL, NL, NL, "b", "a", "b">>
    /\ nout = <<NL, NL, "b", "a", "b">>

\* C3: normalizing a normalized string changes nothing.
C3_Idempotent == npc = "twice" => nout2 = nout

C3_Witness ==
    /\ npc = "twice"
    /\ nin = <<"a", NL, NL, NL, NL, "b">>
    /\ nout = <<"a", NL, NL, "b">>
    /\ nout2 = nout

(***************************************************************************)
(* Properties of the renderer, under SpecRender and SpecLines              *)
(***************************************************************************)
SkipSet == {"script", "style"}
BlockSet == {"div", "p", "h1", "h2", "h3", "h4", "h5", "h6", "pre", "blockquote", "li"}

\* a forest without its skip-set elements, at every depth
RECURSIVE WithoutSkipped(_)
WithoutSkipped(f) ==
    IF f = <<>> THEN <<>>
    ELSE LET n == Head(f)
         IN IF n.kind = "element" /\ n.name \in SkipSet
            THEN WithoutSkipped(Tail(f))
            ELSE <<[n EXCEPT !.children = WithoutSkipped(n.children)]>>
                     \o WithoutSkipped(Tail(f))

\* C6: the output of the walk is the output for the tree with every script and
\* style element deleted, whatever their depth and content; a skip-set element
\* as the root gives no output at all.
C6_SkippedSubtreesContributeNothing ==
    /\ rpc = "walked" =>
          raw = IF WithoutSkipped(<<node>>) = <<>>
                THEN <<>>
                ELSE extract_text_from_node(WithoutSkipped(<<node>>)[1], <<>>)
    /\ rpc = "done" => raw = RawText(WithoutSkipped(<<node>>))

C6_Witness ==
    /\ rpc = "walked"
    /\ node = Element("div", "", <<Element("style", "", <<Element("span", "", <<Text(<<"a">>)>>)>>)>>)
    /\ raw = <<NL, NL>>

\* the reference renderer
RECURSIVE Render(_), RenderAll(_)
Render(n) ==
    IF n.kind = "text" THEN n.text \o <<NL>>
    ELSE IF n.kind # "element" \/ n.name \in SkipSet THEN <<>>
    ELSE IF n.name \in BlockSet THEN <<NL>> \o RenderAll(n.children) \o <<NL>>
    ELSE RenderAll(n.children)
RenderAll(f) == IF f = <<>> THEN <<>> ELSE Render(Head(f)) \o RenderAll(Tail(f))

\* C8: the walk gives the reference rendering of every tree: a text and a
\* newline; nothing for a skip-set element; newline, children, newline for a
\* block element; the children alone for any other element.
C8_WalkEqualsReference ==
    /\ rpc = "walked" => raw = Render(node)
    /\ rpc = "done" => raw = Render(node)

C8_Witness ==
    /\ rpc = "walked"
    /\ node = Element("div", "", <<Text(<<"b">>), Element("span", "", <<Text(<<"a">>)>>)>>)
    /\ raw = <<NL, "b", NL, "a", NL, NL>>

\* a string cut at its newlines (the pieces between them, empty ones too)
RECURSIVE SplitAtNewlines(_, _)
SplitAtNewlines(s, cur) ==
    IF s = <<>> THEN <<cur>>
    ELSE IF Head(s) = NL THEN <<cur>> \o SplitAtNewlines(Tail(s), <<>>)
    ELSE SplitAtNewlines(Tail(s), Append(cur, Head(s)))

Whitespace == {SP, NL, CR, "\t"}

\* a piece without its leading and trailing whitespace
Trimmed(l) ==
    LET I == {i \in 1..Len(l) : l[i] \notin Whitespace}
    IN IF I = {} THEN <<>>
       ELSE SubSeq(l, CHOOSE i \in I : \A j \in I : i <= j, CHOOSE i \in I : \A j \in I : j <= i)

IsNonEmpty(l) == l # <<>>

TrimmedNonEmptyLines(s) ==
    LET ps == SplitAtNewlines(s, <<>>)
    IN SelectSeq([k \in 1..Len(ps) |-> Trimmed(ps[k])], IsNonEmpty)

\* C9: the lines of the final text are the raw text's lines, trimmed, the empty
\* ones removed, in order; so the final text has no two newlines in a row, does
\* not start or end with a newline, and no line of it starts or ends with
\* whitespace.
C9_LinesTrimmedAndBlankLinesDropped ==
    rpc = "done" =>
        /\ IF TrimmedNonEmptyLines(raw) = <<>>
           THEN cleaned = <<>>
           ELSE SplitAtNewlines(cleaned, <<>>) = TrimmedNonEmptyLines(raw)
        /\ \A i \in 1..(Len(cleaned) - 1) : ~(cleaned[i] = NL /\ cleaned[i + 1] = NL)
        /\ cleaned # <<>> =>
              /\ cleaned[1] # NL /\ cleaned[Len(cleaned)] # NL
              /\ \A k \in 1..Len(SplitAtNewlines(cleaned, <<>>)) :
                    LET l == SplitAtNewlines(cleaned, <<>>)[k]
                    IN l # <<>> /\ l[1] \notin Whitespace /\ l[Len(l)] \notin Whitespace

C9_Witness ==
    /\ rpc = "done"
    /\ node = Element("div", "", <<Text(<<SP, "a", NL, SP>>)>>)
    /\ raw = <<NL, SP, "a", NL, SP, NL, NL>>
    /\ cleaned = <<"a">>

(***************************************************************************)
(* Properties of process_html_content, under SpecPipe                      *)
(***************************************************************************)
ContentRootMarker == "main-content"

\* the places of a tree: the child indices from the root down
RECURSIVE PathsOf(_)
PathsOf(n) ==
    {<<>>} \cup UNION {{<<i>> \o q : q \in PathsOf(n.children[i])} : i \in 1..Len(n.children)}

RECURSIVE NodeAt(_, _)
NodeAt(n, path) == IF path = <<>> THEN n ELSE NodeAt(n.children[Head(path)], Tail(path))

\* document order: an ancestor before its descendants, a subtree before the
\* subtrees to its right
DocBefore(p1, p2) ==
    \/ Len(p1) < Len(p2) /\ SubSeq(p2, 1, Len(p1)) = p1
    \/ \E k \in 1..Min(Len(p1), Len(p2)) :
          /\ SubSeq(p1, 1, k - 1) = SubSeq(p2, 1, k - 1)
          /\ p1[k] < p2[k]

ContentRoots(document) ==
    {path \in PathsOf(document) :
        NodeAt(document, path).kind = "element" /\ NodeAt(document, path).id = ContentRootMarker}

FirstContentRoot(document) ==
    NodeAt(document, CHOOSE p1 \in ContentRoots(document) :
                         \A p2 \in ContentRoots(document) \ {p1} : DocBefore(p1, p2))

\* C5: with no element carrying the marker the call fails with NotFound and
\* returns no text; with one or more, the first in document order is the content
\* root taken, extraction raises no error, and (main.rs) the text returned is
\* the rendering of that element's content.
C5_FirstContentRootOrNotFound ==
    ppc = "done" =>
        IF ContentRoots(html) = {}
        THEN result = Err(NotFound) /\ result.value = <<>> /\ rendered_root = None
        ELSE /\ rendered_root = FirstContentRoot(html)
             /\ result.msg # NotFound
             /\ variant = "main" =>
                   result = Ok(LineCleanup(RawText(RemoveScripts(FirstContentRoot(html).children))))

C5_Witness ==
    /\ ppc = "done"
    /\ variant = "main"
    /\ html = ParseDocument(<<Element("div", "main-content", <<Text(<<"a">>)>>),
                              Element("div", "main-content", <<Text(<<SP, "b">>)>>)>>)
    /\ result = Ok(<<"a">>)

LastArg(op, default) ==
    LET I == {i \in 1..Len(calls) : calls[i].op = op}
    IN IF I = {} THEN default ELSE calls[CHOOSE i \in I : \A j \in I : j <= i].arg

\* C7: after any sequence of builder calls crate_name is the name given to new,
\* item_path the argument of the last with_item_path (None without one) and
\* online the argument of the last with_online (false without one); so a setter
\* leaves the other two fields as they were.
C7_BuilderFields ==
    /\ cfg.crate_name = calls[1].arg
    /\ cfg.item_path = LastArg("with_item_path", NoPath)
    /\ cfg.online = LastArg("with_online", FALSE)

C7_Witness ==
    /\ calls = <<[op |-> "new", arg |-> "serde"],
                 [op |-> "with_item_path", arg |-> "Deserializer"],
                 [op |-> "with_online", arg |-> TRUE],
                 [op |-> "with_item_path", arg |-> "de::Error"]>>
    /\ cfg = [crate_name |-> "serde", item_path |-> "de::Error", online |-> TRUE]

OnlineSteps == {"send", "status", "body"}
FailureOutcomes == {"error", "failure", "spawn_error", "exit_failure", "missing"}

Logged(step, outcome) == \E i \in 1..Len(acq.log) : acq.log[i] = Ev(step, outcome)
SomeFailure == \E i \in 1..Len(acq.log) : acq.log[i].outcome \in FailureOutcomes

AcquisitionSucceeded ==
    /\ ~SomeFailure
    /\ call.mode = "online" => Logged("status", "success") /\ Logged("body", "ok")
    /\ call.mode = "local" =>
          /\ \E i \in 1..Len(acq.log) : acq.log[i].step = "cargo"
          /\ \A i \in 1..Len(acq.log) :
                acq.log[i].step = "cargo" => acq.log[i].outcome = "exit_success"
          /\ Logged("crate_doc_path", "exists")
          /\ Logged("index_path", "exists")
          /\ Logged("read_index", "ok")

\* C10: process_html_content is invoked at most once and only after acquisition
\* has fully succeeded; after any acquisition failure the call has returned an
\* error and the core is never invoked; Config::execute runs the online steps
\* when online is set and the local steps otherwise, never both.
C10_AcquisitionPrecedesRendering ==
    /\ process_calls <= 1
    /\ (process_calls = 1 \/ pc = "process") => AcquisitionSucceeded
    /\ SomeFailure => process_calls = 0 /\ pc = "done" /\ ret.kind = "Err"
    /\ (pc = "done" /\ process_calls = 0) => ret.kind = "Err"
    /\ call.entry = "execute" =>
          /\ call.mode = (IF cfg.online THEN "online" ELSE "local")
          /\ \A i \in 1..Len(acq.log) :
                (acq.log[i].step \in OnlineSteps) <=> cfg.online

C10_Witness ==
    /\ pc = "done"
    /\ call = [entry |-> "execute", mode |-> "local"]
    /\ process_calls = 1
    /\ Logged("is_cargo_project", "no")
    /\ ret.kind = "Ok"
==========================================================================
